---- MODULE Spec2Model ----
(***************************************************************************)
(* Model of the PDF study aid: the SimpleRetriever ranking function, the   *)
(* QuizManager session object (src/src/utils/helpers.py) and the Streamlit *)
(* script that drives it (src/application.py).                             *)
(*                                                                         *)
(* Python strings are sequences of one-character strings, so that lower(), *)
(* strip(), split() and the substring test are computed, not assumed.      *)
(* Python values that may be None, a string or a bool are records with the *)
(* fields t (tag), s (string) and b (bool).                                *)
(***************************************************************************)
EXTENDS Integers, Sequences, FiniteSets, TLC

\* ------------------------------------------------------------------ bounds
MaxChunks == 3
MaxTopK == 3
MaxQuestions == 2
MaxChatMessages == 2
MaxCallQuestions == 1
MaxSentences == 3
MaxParts == 3
MaxUploadPages == 3
MaxRows == 3

\* ------------------------------------------------------- Python primitives
PyNone == [t |-> "none", s |-> <<>>, b |-> FALSE]

PyStr(str) == [t |-> "str", s |-> str, b |-> FALSE]

PyBool(bool) == [t |-> "bool", s |-> <<>>, b |-> bool]

\* Python truth value of None, a str or a bool
Truthy(v) ==
    CASE v.t = "none" -> FALSE
      [] v.t = "str" -> v.s # <<>>
      [] v.t = "bool" -> v.b

\* Python `x and y` / `x or y` return one of their operands
PyAnd(x, y) == IF Truthy(x) THEN y ELSE x

PyOr(x, y) == IF Truthy(x) THEN x ELSE y

IsSpace(c) == c \in {" ", "\n"}

LowerChar(c) ==
    CASE c = "A" -> "a"
      [] c = "B" -> "b"
      [] c = "P" -> "p"
      [] OTHER -> c

\* str.lower()
Lower(str) == [i \in 1..Len(str) |-> LowerChar(str[i])]

RECURSIVE LStrip(_)
LStrip(str) ==
    IF str = <<>> THEN <<>>
    ELSE IF IsSpace(Head(str)) THEN LStrip(Tail(str))
    ELSE str

RECURSIVE RStrip(_)
RStrip(str) ==
    IF str = <<>> THEN <<>>
    ELSE IF IsSpace(str[Len(str)]) THEN RStrip(SubSeq(str, 1, Len(str) - 1))
    ELSE str

\* str.strip()
Strip(str) == RStrip(LStrip(str))

\* the members of S between lo and hi, in ascending order
RECURSIVE Ascending(_, _, _)
Ascending(S, lo, hi) ==
    IF lo > hi THEN <<>>
    ELSE IF lo = hi THEN (IF lo \in S THEN <<lo>> ELSE <<>>)
    ELSE LET mid == (lo + hi) \div 2
         IN Ascending(S, lo, mid) \o Ascending(S, mid + 1, hi)

\* str.split(): the maximal runs of non-whitespace characters, left to right
Split(str) ==
    LET first == {i \in 1..Len(str) : ~IsSpace(str[i]) /\ (i = 1 \/ IsSpace(str[i - 1]))}
        last == {i \in 1..Len(str) :
                    ~IsSpace(str[i]) /\ (i = Len(str) \/ IsSpace(str[i + 1]))}
        from == Ascending(first, 1, Len(str))
        to == Ascending(last, 1, Len(str))
    IN [k \in 1..Len(from) |-> SubSeq(str, from[k], to[k])]

Range(seq) == {seq[i] : i \in 1..Len(seq)}

\* Python `w in s` for strings
IsSubstring(w, str) ==
    \E i \in 0..(Len(str) - Len(w)) : SubSeq(str, i + 1, i + Len(w)) = w

Digit(n) == <<"0", "1", "2", "3", "4", "5", "6", "7", "8", "9">>[n + 1]

\* str(n) for 0 <= n <= 999
Str(n) ==
    IF n < 10 THEN <<Digit(n)>>
    ELSE IF n < 100 THEN <<Digit(n \div 10), Digit(n % 10)>>
    ELSE <<Digit(n \div 100), Digit((n \div 10) % 10), Digit(n % 10)>>

\* ------------------------------------------------------------ rationals
\* A score is the exact fraction n/d (d > 0) of the float the code computes.
Rat(n, d) == [n |-> n, d |-> d]

RatAdd(x, y) == Rat(x.n * y.d + y.n * x.d, x.d * y.d)

RatMul(x, y) == Rat(x.n * y.n, x.d * y.d)

RatLess(x, y) == x.n * y.d < y.n * x.d

RatEq(x, y) == x.n * y.d = y.n * x.d

RatPos(x) == x.n > 0

\* ----------------------------------------------------- SimpleRetriever
\* jaccard_score = len(intersection) / len(union) if union else 0
Jaccard(query_words, chunk_words) ==
    LET intersection == query_words \cap chunk_words
        union == query_words \cup chunk_words
    IN IF union # {} THEN Rat(Cardinality(intersection), Cardinality(union))
       ELSE Rat(0, 1)

\* sum(1 for word in query_words if word in chunk.lower()) / len(query_words)
\* (defined only for a non-empty query_words; see retrieve)
KeywordBonus(query_words, chunk) ==
    Rat(Cardinality({w \in query_words : IsSubstring(w, Lower(chunk))}),
        Cardinality(query_words))

FinalScore(query_words, chunk) ==
    RatAdd(Jaccard(query_words, Range(Split(Lower(chunk)))),
           RatMul(KeywordBonus(query_words, chunk), Rat(1, 2)))

\* one entry of `scores`: (final_score, i, chunk), i 0-based
ScoreEntry(query_words, chunks, i) ==
    [score |-> FinalScore(query_words, chunks[i + 1]), idx |-> i, chunk |-> chunks[i + 1]]

\* position at which e goes into a descending list so that it lands after
\* every entry whose score is >= its own
RECURSIVE InsertDesc(_, _)
InsertDesc(sorted, e) ==
    IF sorted = <<>> THEN <<e>>
    ELSE IF RatLess(Head(sorted).score, e.score) THEN <<e>> \o sorted
    ELSE <<Head(sorted)>> \o InsertDesc(Tail(sorted), e)

\* scores.sort(reverse=True, key=lambda x: x[0]): descending by score, and
\* stable (entries of equal score keep their original relative order)
RECURSIVE SortedFrom(_, _)
SortedFrom(scores, acc) ==
    IF scores = <<>> THEN acc
    ELSE SortedFrom(Tail(scores), InsertDesc(acc, Head(scores)))

\* SortDescStable sorting the entries from the last to the first, so that
\* entries of equal score come out in descending index order
SortDescTiesReversed(scores) ==
    SortedFrom([i \in 1..Len(scores) |-> scores[Len(scores) + 1 - i]], <<>>)

\* SortDescStable with the sort left out
SortSkipped(scores) == scores

SortDescStable(scores) == SortedFrom(scores, <<>>)

\* scores[:top_k] for top_k >= 0
Take(seq, k) == SubSeq(seq, 1, IF k < Len(seq) THEN k ELSE Len(seq))

\* SelectSeqPos with the `if score > 0` filter left out
SelectSeqAll(seq) == seq

\* [... for score, idx, chunk in ... if score > 0]
SelectSeqPos(seq) == SelectSeq(seq, LAMBDA e : RatPos(e.score))

\* SimpleRetriever.retrieve: the outcome is either a raised exception
\* (ZeroDivisionError when query has no words and there is a chunk to score)
\* or the list of (idx, chunk, score)
retrieve(chunks, query, top_k) ==
    LET query_words == Range(Split(Lower(query)))
    IN IF chunks # <<>> /\ query_words = {}
       THEN [raised |-> TRUE, value |-> <<>>]
       ELSE LET scores == [j \in 1..Len(chunks) |-> ScoreEntry(query_words, chunks, j - 1)]
                top == Take(SortDescStable(scores), top_k)
            IN [raised |-> FALSE, value |-> SelectSeqPos(top)]

\* ------------------------------------------------------- question records
NoAnswer == <<"N", "o", " ", "a", "n", "s", "w", "e", "r">>

Unknown == <<"U", "n", "k", "n", "o", "w", "n">>

BlankMarker == <<"_", "_", "_">>

\* MCQQuestion(question, options, correct_answer)
MCQQuestion(q, opts, ca) == [question |-> q, options |-> opts, correct_answer |-> ca]

\* FillBlankQuestion(question, answer)
FillBlankQuestion(q, a) == [question |-> q, answer |-> a]

\* What the LLM and the parser may hand back for one MCQ request: a
\* well-formed question, one with three options, one whose key is not an
\* option, one with four options of which two are the same.
Opts4 == << <<"a">>, <<"A">>, <<"b">>, <<"c">> >>

ParsedMCQ ==
    { MCQQuestion(<<"x">>, Opts4, <<"a">>),
      MCQQuestion(<<"x">>, << <<"a">>, <<"A">>, <<"b">> >>, <<"a">>),
      MCQQuestion(<<"y">>, Opts4, <<"d">>),
      MCQQuestion(<<"z">>, << <<"a">>, <<"b">>, <<"a">>, <<"c">> >>, <<"a">>) }

\* ... and for one fill-in-the-blank request: a key with a capital and a
\* trailing space, a blank key, and a question without the marker.
ParsedFillBlank ==
    { FillBlankQuestion(<<"_", "_", "_">>, <<"P", "a", " ">>),
      FillBlankQuestion(<<"_", "_", "_", "y">>, <<" ">>),
      FillBlankQuestion(<<"x", "_", "_">>, <<"a">>) }

Raised == [raised |-> TRUE]

Returned(v) == [raised |-> FALSE, value |-> v]

\* EnhancedQuestionGenerator.generate_mcq_from_content, given the outcome of
\* _retry_and_parse: the validation after the parse, every failure re-raised
generate_mcq_from_content(parsed) ==
    IF parsed.raised THEN Raised
    ELSE IF Len(parsed.value.options) # 4 THEN Raised
    ELSE IF parsed.value.correct_answer \notin Range(parsed.value.options) THEN Raised
    ELSE Returned(parsed.value)

\* EnhancedQuestionGenerator.generate_fillblank_from_content, likewise
generate_fillblank_from_content(parsed) ==
    IF parsed.raised THEN Raised
    ELSE IF ~IsSubstring(BlankMarker, parsed.value.question) THEN Raised
    ELSE Returned(parsed.value)

\* max_retries of _retry_and_parse
MaxRetries == 3

\* what makes one attempt fail: llm.invoke raises, no JSON object is found in
\* the response, or the parser rejects the JSON
AttemptFailures == {"llm", "json", "parse"}

Failed(cause) == [raised |-> TRUE, cause |-> cause]

\* a call of generate_mcq_from_content or generate_fillblank_from_content
\* about to enter the retry loop
GenerationStarted(fn) == [fn |-> fn, status |-> "running", log |-> <<>>]

\* GenerationStep with the test for the last attempt off by one: the loop
\* runs out, _retry_and_parse returns None and the caller fails on it
GenerationStepOffByOne(c, outcome) ==
    LET attempt == Len(c.log)
        log == Append(c.log, outcome)
        parsed == IF outcome.raised THEN Raised ELSE Returned(outcome.value)
        checked == IF c.fn = "generate_mcq_from_content"
                   THEN generate_mcq_from_content(parsed)
                   ELSE generate_fillblank_from_content(parsed)
    IN IF outcome.raised
       THEN IF attempt = MaxRetries - 1
            THEN [fn |-> c.fn, status |-> "raised", log |-> log,
                  error |-> [kind |-> "validation", cause |-> "AttributeError"]]
            ELSE [fn |-> c.fn, status |-> "running", log |-> log]
       ELSE IF checked.raised
            THEN [fn |-> c.fn, status |-> "raised", log |-> log,
                  error |-> [kind |-> "validation", cause |-> "ValueError"]]
            ELSE [fn |-> c.fn, status |-> "returned", log |-> log, question |-> checked.value]

\* One iteration of the loop of _retry_and_parse (attempt = Len(c.log),
\* 0-based) and what follows it in the caller.  outcome is what llm.invoke,
\* _extract_json_from_response and parser.parse come to in this attempt.  A
\* failed attempt is logged and, when it is the last one, raised as
\* CustomException(.., e), which the caller wraps once more; a parsed
\* question leaves the loop and goes through the caller's validation, whose
\* ValueError the caller wraps and raises.  error is the innermost exception
\* the raised one carries.
GenerationStep(c, outcome) ==
    LET attempt == Len(c.log)
        log == Append(c.log, outcome)
        parsed == IF outcome.raised THEN Raised ELSE Returned(outcome.value)
        checked == IF c.fn = "generate_mcq_from_content"
                   THEN generate_mcq_from_content(parsed)
                   ELSE generate_fillblank_from_content(parsed)
    IN IF outcome.raised
       THEN IF attempt = MaxRetries - 1
            THEN [fn |-> c.fn, status |-> "raised", log |-> log,
                  error |-> [kind |-> "attempts", cause |-> outcome.cause]]
            ELSE [fn |-> c.fn, status |-> "running", log |-> log]
       ELSE IF checked.raised
            THEN [fn |-> c.fn, status |-> "raised", log |-> log,
                  error |-> [kind |-> "validation", cause |-> "ValueError"]]
            ELSE [fn |-> c.fn, status |-> "returned", log |-> log, question |-> checked.value]

\* ------------------------------------------------------------ QuizManager
MultipleChoice == "Multiple Choice"

FillInTheBlank == "Fill in the Blank"

NoRetriever == [set |-> FALSE, chunks |-> <<>>]

SimpleRetriever(chunks) == [set |-> TRUE, chunks |-> chunks]

\* QuizManager.__init__ (results is not an attribute yet; every reader of
\* results treats a missing attribute like an empty list)
QuizManagerInit ==
    [questions |-> <<>>, user_answers |-> <<>>, question_type |-> "",
     pdf_content |-> <<>>, pdf_summary |-> "None",
     retriever |-> NoRetriever, content_chunks |-> <<>>, results |-> <<>>]

\* set_pdf_content starting the quiz afresh for the new document
SetPdfContentResettingQuiz(m, content, summary) ==
    [m EXCEPT !.pdf_content = content, !.pdf_summary = summary,
              !.questions = <<>>, !.user_answers = <<>>, !.results = <<>>]

set_pdf_content(m, content, summary) ==
    [m EXCEPT !.pdf_content = content, !.pdf_summary = summary]

\* str.replace('\n', ' ')
ReplaceNewlines(str) == [i \in 1..Len(str) |-> IF str[i] = "\n" THEN " " ELSE str[i]]

\* str.split('. '): cut at each occurrence of period-plus-space, left to right
\* (two occurrences never overlap)
SplitSentences(str) ==
    LET delimiters == {i \in 1..(Len(str) - 1) : str[i] = "." /\ str[i + 1] = " "}
        at == Ascending(delimiters, 1, Len(str))
    IN [k \in 1..(Len(at) + 1) |->
           SubSeq(str, IF k = 1 THEN 1 ELSE at[k - 1] + 2,
                       IF k = Len(at) + 1 THEN Len(str) ELSE at[k] - 1)]

\* sep.join(parts[lo..hi]) for lo <= hi
RECURSIVE JoinRange(_, _, _, _)
JoinRange(sep, parts, lo, hi) ==
    IF lo = hi THEN parts[lo]
    ELSE LET mid == (lo + hi) \div 2
         IN JoinRange(sep, parts, lo, mid) \o sep \o JoinRange(sep, parts, mid + 1, hi)

\* sep.join(parts)
Join(sep, parts) == IF parts = <<>> THEN <<>> ELSE JoinRange(sep, parts, 1, Len(parts))

Max(a, b) == IF a >= b THEN a ELSE b

Min(a, b) == IF a <= b THEN a ELSE b

\* sentences[i:i + chunk_size], i 0-based
Slice(seq, i, n) == SubSeq(seq, i + 1, Min(i + n, Len(seq)))

\* the loop `for i in range(0, len(sentences), chunk_size - overlap)`
RECURSIVE Windows(_, _, _, _, _)
Windows(sentences, i, chunk_size, overlap, chunks) ==
    IF i >= Len(sentences) THEN chunks
    ELSE LET chunk == Join(<<".", " ">>, Slice(sentences, i, chunk_size))
         IN Windows(sentences, i + (chunk_size - overlap), chunk_size, overlap,
                    IF Strip(chunk) # <<>> THEN Append(chunks, Strip(chunk)) ELSE chunks)

\* split_content_for_retrieval advancing by a whole window (no overlap)
SplitForRetrievalWithoutOverlap(content, num_chunks) ==
    LET sentences == SplitSentences(ReplaceNewlines(content))
    IN IF Len(sentences) <= num_chunks THEN sentences
       ELSE LET chunk_size == Max(Len(sentences) \div num_chunks, 3)
            IN Windows(sentences, 0, chunk_size, 0, <<>>)

\* split_content_for_retrieval returning the sentences only when there are
\* fewer of them than num_chunks
SplitForRetrievalStrictlyFewer(content, num_chunks) ==
    LET sentences == SplitSentences(ReplaceNewlines(content))
    IN IF Len(sentences) < num_chunks THEN sentences
       ELSE LET chunk_size == Max(Len(sentences) \div num_chunks, 3)
                overlap == Max(chunk_size \div 3, 1)
            IN Windows(sentences, 0, chunk_size, overlap, <<>>)

\* QuizManager._split_content_for_retrieval
split_content_for_retrieval(content, num_chunks) ==
    LET sentences == SplitSentences(ReplaceNewlines(content))
    IN IF Len(sentences) <= num_chunks THEN sentences
       ELSE LET chunk_size == Max(Len(sentences) \div num_chunks, 3)
                overlap == Max(chunk_size \div 3, 1)
            IN Windows(sentences, 0, chunk_size, overlap, <<>>)

MinChunkWords == 100

\* the loop `for i in range(0, len(words), chunk_size)`
RECURSIVE WordChunks(_, _, _, _)
WordChunks(words, i, chunk_size, chunks) ==
    IF i >= Len(words) THEN chunks
    ELSE WordChunks(words, i + chunk_size, chunk_size,
                    Append(chunks, Join(<<" ">>, Slice(words, i, chunk_size))))

\* split_content returning chunks even when there is none
SplitContentNoFallback(content, num_parts) ==
    LET words == Split(content)
        chunk_size == Max(Len(words) \div num_parts, MinChunkWords)
    IN WordChunks(words, 0, chunk_size, <<>>)

\* split_content advancing by one word less than a chunk holds
SplitContentOverlapping(content, num_parts) ==
    LET words == Split(content)
        chunk_size == Max(Len(words) \div num_parts, MinChunkWords)
        chunks == [k \in 1..((Len(words) + chunk_size - 2) \div (chunk_size - 1)) |->
                      Join(<<" ">>, Slice(words, (k - 1) * (chunk_size - 1), chunk_size))]
    IN IF chunks # <<>> THEN chunks ELSE <<content>>

\* QuizManager._split_content
split_content(content, num_parts) ==
    LET words == Split(content)
        chunk_size == Max(Len(words) \div num_parts, MinChunkWords)
        chunks == WordChunks(words, 0, chunk_size, <<>>)
    IN IF chunks # <<>> THEN chunks ELSE <<content>>

\* `chunk = content_chunks[i % len(content_chunks)]` for question i (0-based):
\* the position (1-based) of the part the question is requested from
PartOfQuestion(content_chunks, i) == (i % Len(content_chunks)) + 1

\* the parts the requests of one generate_questions_from_pdf call are made
\* from, request after request, when no request raises
PartsRequested(content, num_questions) ==
    LET content_chunks == split_content(content, num_questions)
    IN [q \in 1..num_questions |-> PartOfQuestion(content_chunks, q - 1)]

DefaultNumChunks == 10

\* build_retriever keeping a retriever that is already there
BuildRetrieverOnce(m) ==
    IF m.pdf_content = <<>> THEN [m |-> m, ret |-> FALSE]
    ELSE IF m.retriever.set THEN [m |-> m, ret |-> TRUE]
    ELSE LET chunks == split_content_for_retrieval(m.pdf_content, DefaultNumChunks)
         IN [m |-> [m EXCEPT !.content_chunks = chunks, !.retriever = SimpleRetriever(chunks)],
             ret |-> TRUE]

\* QuizManager.build_retriever: the manager afterwards and the return value
build_retriever(m) ==
    IF m.pdf_content = <<>> THEN [m |-> m, ret |-> FALSE]
    ELSE LET chunks == split_content_for_retrieval(m.pdf_content, DefaultNumChunks)
         IN [m |-> [m EXCEPT !.content_chunks = chunks, !.retriever = SimpleRetriever(chunks)],
             ret |-> TRUE]

\* generator.generate_mcq_from_content / generate_fillblank_from_content as
\* dispatched on question_type in the loop body; any other type raises
GenerateOne(question_type, parsed) ==
    IF question_type = MultipleChoice THEN generate_mcq_from_content(parsed)
    ELSE IF question_type = FillInTheBlank THEN generate_fillblank_from_content(parsed)
    ELSE Raised

\* the loop `for i in range(num_questions)`: questions appended so far and
\* whether an iteration raised; parsed[i] is what the i-th request parses to
RECURSIVE GenerateLoop(_, _, _, _)
GenerateLoop(question_type, parsed, i, questions) ==
    IF i > Len(parsed) THEN [questions |-> questions, raised |-> FALSE]
    ELSE LET question == GenerateOne(question_type, parsed[i])
         IN IF question.raised THEN [questions |-> questions, raised |-> TRUE]
            ELSE GenerateLoop(question_type, parsed, i + 1, Append(questions, question.value))

\* QuizManager.generate_questions_from_pdf with num_questions = Len(parsed):
\* the manager afterwards and the return value.  (difficulty only reaches the
\* prompt; the word chunks only select the prompt's content.)
generate_questions_from_pdf(m, question_type, parsed) ==
    IF m.pdf_content = <<>> THEN [m |-> m, ret |-> FALSE]
    ELSE LET loop == GenerateLoop(question_type, parsed, 1, <<>>)
             started == [m EXCEPT !.questions = loop.questions, !.question_type = question_type]
         IN IF loop.raised THEN [m |-> started, ret |-> FALSE]
            ELSE [m |-> [started EXCEPT !.user_answers = [i \in 1..Len(loop.questions) |-> PyNone]],
                  ret |-> TRUE]

\* the value attempt_quiz records for one widget value
RecordedAnswer(question_type, widget) ==
    IF question_type = MultipleChoice THEN widget
    ELSE IF Truthy(widget) THEN PyStr(Strip(widget.s)) ELSE PyNone

\* QuizManager.attempt_quiz: user_answers[i] is assigned for each question in
\* turn; the assignment raises IndexError at the first i past the end of
\* user_answers, the earlier assignments staying in place
attempt_quiz(m, widget) ==
    IF m.questions = <<>> THEN m
    ELSE IF m.question_type \notin {MultipleChoice, FillInTheBlank} THEN m
    ELSE [m EXCEPT !.user_answers =
            [i \in 1..Len(m.user_answers) |->
                IF i <= Len(m.questions) THEN RecordedAnswer(m.question_type, widget[i])
                ELSE m.user_answers[i]]]

\* GradedAnswer comparing a multiple-choice answer without regard to case
GradedAnswerIgnoringCase(question_type, i, question, user_answer) ==
    [question_number |-> i, question |-> question.question,
     user_answer |-> PyOr(user_answer, PyStr(NoAnswer)),
     correct_answer |-> IF question_type = MultipleChoice THEN question.correct_answer
                        ELSE question.answer,
     is_correct |-> IF question_type = MultipleChoice
                    THEN PyBool(user_answer.t = "str"
                                /\ Lower(user_answer.s) = Lower(question.correct_answer))
                    ELSE PyAnd(user_answer,
                               PyBool(Strip(Lower(user_answer.s)) = Strip(Lower(question.answer))))]

\* GradedAnswer comparing a fill-in-the-blank answer without lower-casing
GradedAnswerCaseSensitive(question_type, i, question, user_answer) ==
    [question_number |-> i, question |-> question.question,
     user_answer |-> PyOr(user_answer, PyStr(NoAnswer)),
     correct_answer |-> IF question_type = MultipleChoice THEN question.correct_answer
                        ELSE question.answer,
     is_correct |-> IF question_type = MultipleChoice
                    THEN PyBool(user_answer = PyStr(question.correct_answer))
                    ELSE PyAnd(user_answer,
                               PyBool(Strip(user_answer.s) = Strip(question.answer)))]

\* one result record of evaluate_quiz, i 1-based
GradedAnswer(question_type, i, question, user_answer) ==
    LET is_correct ==
            IF question_type = MultipleChoice
            THEN PyBool(user_answer = PyStr(question.correct_answer))
            ELSE IF question_type = FillInTheBlank
            THEN PyAnd(user_answer,
                       PyBool(Strip(Lower(user_answer.s)) = Strip(Lower(question.answer))))
            ELSE PyBool(FALSE)
        correct_answer ==
            IF question_type = MultipleChoice THEN question.correct_answer
            ELSE IF question_type = FillInTheBlank THEN question.answer
            ELSE Unknown
    IN [question_number |-> i, question |-> question.question,
        user_answer |-> PyOr(user_answer, PyStr(NoAnswer)),
        correct_answer |-> correct_answer, is_correct |-> is_correct]

\* QuizManager.evaluate_quiz (zip stops at the shorter of the two lists)
evaluate_quiz(m) ==
    IF m.questions = <<>> \/ m.user_answers = <<>> THEN m
    ELSE [m EXCEPT !.results =
            [i \in 1..Min(Len(m.questions), Len(m.user_answers)) |->
                GradedAnswer(m.question_type, i, m.questions[i], m.user_answers[i])]]

\* ScorePercentage rounding towards zero
ScorePercentageTruncated(correct, total) == (10000 * correct) \div total

\* round((correct / total) * 100, 2), in hundredths of a percent: to the
\* nearest hundredth, a value halfway between two going to the even one
ScorePercentage(correct, total) ==
    LET quotient == (10000 * correct) \div total
        remainder == (10000 * correct) % total
    IN IF 2 * remainder > total THEN quotient + 1
       ELSE IF 2 * remainder = total THEN quotient + (quotient % 2)
       ELSE quotient

NoFile == [written |-> FALSE]

\* str(x) of the float round(.., 2), x given in hundredths: the shortest
\* decimal, with at least one digit after the point
StrFloat(hundredths) ==
    Str(hundredths \div 100) \o <<".">>
        \o (IF hundredths % 10 = 0 THEN <<Digit((hundredths \div 10) % 10)>>
            ELSE <<Digit((hundredths \div 10) % 10), Digit(hundredths % 10)>>)

\* the characters of question_type
QuestionTypeText(question_type) ==
    IF question_type = "Multiple Choice" THEN
        <<"M", "u", "l", "t", "i", "p", "l", "e", " ", "C", "h", "o", "i", "c", "e">>
    ELSE IF question_type = "Fill in the Blank" THEN
        <<"F", "i", "l", "l", " ", "i", "n", " ", "t", "h", "e", " ", "B", "l", "a", "n", "k">>
    ELSE IF question_type = "Essay" THEN <<"E", "s", "s", "a", "y">>
    ELSE <<>>

\* datetime.now().isoformat() at the time of the call
Timestamp ==
    <<"2", "0", "2", "4", "-", "0", "1", "-", "0", "1", "T", "0", "0", ":", "0", "0", ":", "0",
      "0", ".", "0", "0", "0", "0", "0", "0">>

\* f"# {key}: {value}\n"
SummaryLine(key, value) == <<"#", " ">> \o key \o <<":", " ">> \o value \o <<"\n">>

\* what the with-block writes to f: the title, one line per entry of
\* summary_data, and an empty line
SummaryText(summary_data) ==
    <<"#", " ", "Q", "u", "i", "z", " ", "S", "u", "m", "m", "a", "r", "y", "\n">>
    \o SummaryLine(
        <<"t", "o", "t", "a", "l", "_", "q", "u", "e", "s", "t", "i", "o", "n", "s">>,
        Str(summary_data.total_questions))
    \o SummaryLine(
        <<"c", "o", "r", "r", "e", "c", "t", "_", "a", "n", "s", "w", "e", "r", "s">>,
        Str(summary_data.correct_answers))
    \o SummaryLine(
        <<"s", "c", "o", "r", "e", "_", "p", "e", "r", "c", "e", "n", "t", "a", "g", "e">>,
        StrFloat(summary_data.score_percentage))
    \o SummaryLine(
        <<"q", "u", "e", "s", "t", "i", "o", "n", "_", "t", "y", "p", "e">>,
        QuestionTypeText(summary_data.question_type))
    \o SummaryLine(
        <<"t", "i", "m", "e", "s", "t", "a", "m", "p">>,
        Timestamp)
    \o <<"\n">>

\* the header line of DataFrame.to_csv(index=False): the keys of a result
TableHeader ==
    <<"q", "u", "e", "s", "t", "i", "o", "n", "_", "n", "u", "m", "b", "e", "r", ",", "q", "u",
      "e", "s", "t", "i", "o", "n", ",", "u", "s", "e", "r", "_", "a", "n", "s", "w", "e", "r",
      ",", "c", "o", "r", "r", "e", "c", "t", "_", "a", "n", "s", "w", "e", "r", ",", "i", "s",
      "_", "c", "o", "r", "r", "e", "c", "t", "\n">>

\* a cell of the is_correct column: True, False, nothing for None, the string
\* itself for a string
CellOfIsCorrect(v) ==
    IF v.t = "bool" THEN (IF v.b THEN <<"T", "r", "u", "e">> ELSE <<"F", "a", "l", "s", "e">>)
    ELSE IF v.t = "str" THEN v.s
    ELSE <<>>

\* one line of the table (no text of the model holds a comma, a quote or a
\* line break, so no cell is quoted)
TableRow(result) ==
    Str(result.question_number) \o <<",">> \o result.question \o <<",">>
        \o result.user_answer.s \o <<",">> \o result.correct_answer \o <<",">>
        \o CellOfIsCorrect(result.is_correct) \o <<"\n">>

\* what DataFrame.to_csv writes for the frame of results
TableText(results) ==
    TableHeader \o Join(<<>>, [i \in 1..Len(results) |-> TableRow(results[i])])

\* a write of data at position offset (0-based) of a file holding bytes
WriteAt(bytes, offset, data) ==
    [i \in 1..Max(Len(bytes), offset + Len(data)) |->
        IF i > offset /\ i <= offset + Len(data) THEN data[i - offset] ELSE bytes[i]]

\* QuizManager.save_to_csv: the file it leaves behind (NoFile when it returns
\* None).  open(filename, 'w') empties the file and the summary lines stay in
\* the buffer of f (they are far shorter than the buffer); to_csv(filename,
\* mode='a') writes the table at the end of the still empty file through a
\* handle of its own; leaving the with-block flushes the buffer of f at the
\* position of f, which is 0.
save_to_csv(m) ==
    IF m.results = <<>> THEN NoFile
    ELSE LET correct == Cardinality({i \in 1..Len(m.results) : Truthy(m.results[i].is_correct)})
             summary_data == [total_questions |-> Len(m.results),
                              correct_answers |-> correct,
                              score_percentage |-> ScorePercentage(correct, Len(m.results)),
                              question_type |-> m.question_type]
             opened == <<>>
             appended == opened \o TableText(m.results)
             closed == WriteAt(appended, 0, SummaryText(summary_data))
         IN [written |-> TRUE, summary_data |-> summary_data, table |-> m.results,
             content |-> closed]

\* f"Context {i+1}: {chunk}" for the retrieval result at position i (0-based)
ContextBlock(i, chunk) ==
    <<"C", "o", "n", "t", "e", "x", "t", " ">> \o Str(i + 1) \o <<":", " ">> \o chunk

\* the context blocks of the prompt, `for i, (_, chunk, _) in enumerate(retrieved_chunks)`
ContextBlocks(retrieved_chunks) ==
    [p \in 1..Len(retrieved_chunks) |-> ContextBlock(p - 1, retrieved_chunks[p].chunk)]

\* get_rag_response without the `if not retrieved_chunks` return
GetRagResponseNoEmptyCheck(m, query, llm_ok) ==
    IF ~m.retriever.set
    THEN [content |-> "process_pdf_first", citations |-> <<>>, invoked |-> FALSE, contexts |-> <<>>]
    ELSE LET retrieved_chunks == retrieve(m.retriever.chunks, query, 3)
         IN IF retrieved_chunks.raised
            THEN [content |-> "error", citations |-> <<>>, invoked |-> FALSE, contexts |-> <<>>]
            ELSE IF ~llm_ok
            THEN [content |-> "error", citations |-> <<>>, invoked |-> TRUE,
                  contexts |-> ContextBlocks(retrieved_chunks.value)]
            ELSE [content |-> "answer", citations |-> retrieved_chunks.value, invoked |-> TRUE,
                  contexts |-> ContextBlocks(retrieved_chunks.value)]

\* get_rag_response returning the citations in the order of the document
\* whatever the LLM call comes to
GetRagResponseCitingInDocumentOrder(m, query, llm_ok) ==
    IF ~m.retriever.set
    THEN [content |-> "process_pdf_first", citations |-> <<>>, invoked |-> FALSE, contexts |-> <<>>]
    ELSE LET retrieved_chunks == retrieve(m.retriever.chunks, query, 3)
             by_position == SelectSeq([k \in 1..Len(m.retriever.chunks) |->
                                          ScoreEntry(Range(Split(Lower(query))),
                                                     m.retriever.chunks, k - 1)],
                                      LAMBDA e : \E p \in 1..Len(retrieved_chunks.value) :
                                                    retrieved_chunks.value[p] = e)
         IN IF retrieved_chunks.raised
            THEN [content |-> "error", citations |-> <<>>, invoked |-> FALSE, contexts |-> <<>>]
            ELSE IF retrieved_chunks.value = <<>>
            THEN [content |-> "not_found", citations |-> <<>>, invoked |-> FALSE, contexts |-> <<>>]
            ELSE [content |-> IF llm_ok THEN "answer" ELSE "error",
                  citations |-> by_position, invoked |-> TRUE,
                  contexts |-> ContextBlocks(retrieved_chunks.value)]

\* QuizManager.get_rag_response: the message returned (which of the fixed
\* messages, or the LLM's answer), the citations, whether llm.invoke was
\* called and the "Context i: ..." blocks of the prompt it was called with;
\* llm_ok says whether llm.invoke returns
get_rag_response(m, query, llm_ok) ==
    IF ~m.retriever.set
    THEN [content |-> "process_pdf_first", citations |-> <<>>, invoked |-> FALSE, contexts |-> <<>>]
    ELSE LET retrieved_chunks == retrieve(m.retriever.chunks, query, 3)
         IN IF retrieved_chunks.raised
            THEN [content |-> "error", citations |-> <<>>, invoked |-> FALSE, contexts |-> <<>>]
            ELSE IF retrieved_chunks.value = <<>>
            THEN [content |-> "not_found", citations |-> <<>>, invoked |-> FALSE, contexts |-> <<>>]
            ELSE IF ~llm_ok
            THEN [content |-> "error", citations |-> <<>>, invoked |-> TRUE,
                  contexts |-> ContextBlocks(retrieved_chunks.value)]
            ELSE [content |-> "answer", citations |-> retrieved_chunks.value, invoked |-> TRUE,
                  contexts |-> ContextBlocks(retrieved_chunks.value)]

\* ------------------------------------------------------------ PDFProcessor
MaxPdfPages == 15

\* f"\n--- Page {page_num + 1} ---\n", page_num 0-based
PageHeader(page_num) ==
    <<"\n", "-", "-", "-", " ", "P", "a", "g", "e", " ">> \o Str(page_num + 1)
        \o <<" ", "-", "-", "-", "\n">>

\* the loop over pdf_reader.pages: a page is PyStr(text), or PyNone when
\* page.extract_text() raises (the page is skipped, header included)
RECURSIVE PagesText(_, _, _)
PagesText(pages, page_num, text_content) ==
    IF page_num >= Len(pages) THEN text_content
    ELSE PagesText(pages, page_num + 1,
                   IF pages[page_num + 1].t = "str"
                   THEN text_content \o PageHeader(page_num) \o pages[page_num + 1].s
                   ELSE text_content)

\* PDFProcessor.validate_pdf
validate_pdf(file) ==
    IF ~file.readable THEN Raised
    ELSE IF Len(file.pages) = 0 THEN Raised
    ELSE IF Len(file.pages) > MaxPdfPages THEN Raised
    ELSE Returned(TRUE)

\* PDFProcessor.extract_text_from_pdf
extract_text_from_pdf(file) ==
    IF ~file.readable THEN Raised
    ELSE LET text_content == PagesText(file.pages, 0, <<>>)
         IN IF Strip(text_content) = <<>> THEN Raised
            ELSE Returned(Strip(text_content))

PdfFile(readable, pages) == [readable |-> readable, pages |-> pages]

\* the uploads tried: unreadable, no page, one page, two pages (one of them
\* failing to extract), a page without text, one page over the limit
Uploads ==
    { PdfFile(FALSE, <<>>),
      PdfFile(TRUE, <<>>),
      PdfFile(TRUE, <<PyStr(<<"P", "a", ".", " ", "b">>)>>),
      PdfFile(TRUE, <<PyNone, PyStr(<<"c">>)>>),
      PdfFile(TRUE, <<PyNone>>),
      PdfFile(TRUE, [i \in 1..(MaxPdfPages + 1) |-> PyStr(<<>>)]) }

\* PDFSummarizer.summarize_pdf_content: raises, or returns a PDFSummary
Summaries == {Raised, Returned("summary")}

\* ------------------------------------------------------------------ state
VARIABLES
    qm,               \* st.session_state.quiz_manager
    ss,               \* the other st.session_state entries
    widgets,          \* browser state of the widgets keyed q_0, q_1, ...
    rerun_requested,  \* st.rerun() was called: the script runs once more
    ui,               \* what the last run's button press (or the last direct call) did
    csv,              \* the file the last script run or call wrote, if any
    rt,               \* a SimpleRetriever of its own and its last retrieve call
    call              \* a helper called on its own: its arguments, progress and outcome

vars == <<qm, ss, widgets, rerun_requested, ui, csv, rt, call>>

\* main(): the session_state defaults
SessionInit ==
    [quiz_generated |-> FALSE, quiz_submitted |-> FALSE, pdf_processed |-> FALSE,
     pdf_summarized |-> FALSE, chat_messages |-> <<>>, retriever_built |-> FALSE]

\* action: the call or button press reported on; evaluated: evaluate_quiz
\* was called; warning: the question numbers in st.warning
Ui(action, evaluated, warning) ==
    [action |-> action, evaluated |-> evaluated, warning |-> warning]

\* a script run in which Submit Quiz was not pressed
NoReport == Ui("none", FALSE, <<>>)

RtIdle == [chunks |-> <<>>, called |-> FALSE]

\* no helper has been called on its own
NoCall == [fn |-> "none"]

Init ==
    /\ qm = QuizManagerInit
    /\ ss = SessionInit
    /\ widgets = <<>>
    /\ rerun_requested = FALSE
    /\ ui = NoReport
    /\ csv = NoFile
    /\ rt = RtIdle
    /\ call = NoCall

\* ------------------------------------------------- the Streamlit script
\* One action is one run of the script (main): the run started by one widget
\* event, or by st.rerun().  st.rerun() ends the run at the call.

\* `if st.session_state.quiz_generated and st.session_state.quiz_manager.questions`
QuizShown(m, s) == s.quiz_generated /\ m.questions # <<>>

\* st.radio(..., index=None) starts at None, st.text_input at ""
DefaultWidgets(m) ==
    [i \in 1..Len(m.questions) |->
        IF m.question_type = MultipleChoice THEN PyNone ELSE PyStr(<<>>)]

\* the values the q_i widgets return in a run: the browser's, or the defaults
\* when the previous run did not render them (their state is then dropped)
WidgetValues(m, w) == IF w = <<>> THEN DefaultWidgets(m) ELSE w

\* the "Display quiz" block up to the Submit button: attempt_quiz when the
\* quiz is shown; w is the widget state the run leaves behind
QuizStage(m, s, w) ==
    IF QuizShown(m, s)
    THEN [m |-> attempt_quiz(m, WidgetValues(m, w)), w |-> WidgetValues(m, w)]
    ELSE [m |-> m, w |-> <<>>]

\* Unanswered with the `ans == ""` test left out
UnansweredNoneOnly(user_answers) ==
    SelectSeq([i \in 1..Len(user_answers) |-> i], LAMBDA i : user_answers[i] = PyNone)

\* unanswered = [i+1 for i, ans in enumerate(user_answers) if ans is None or ans == ""]
Unanswered(user_answers) ==
    SelectSeq([i \in 1..Len(user_answers) |-> i],
              LAMBDA i : user_answers[i] = PyNone \/ user_answers[i] = PyStr(<<>>))

\* what the user may put into widget q_i: one of the first two options for a
\* radio (a radio cannot be cleared again), one of a few texts for a text input
TextInputs == { <<>>, <<" ">>, <<" ", "P", "A", " ">> }

UserChoices(m, i) ==
    IF m.question_type = MultipleChoice
    THEN {PyStr(m.questions[i].options[k]) : k \in 1..2}
    ELSE {PyStr(t) : t \in TextInputs}

\* what widget q_i may return: a choice of the user, or None from a radio
\* that was never clicked
WidgetReturns(m, i) ==
    IF m.question_type = MultipleChoice THEN {PyNone} \cup UserChoices(m, i)
    ELSE UserChoices(m, i)

\* the report of a "Process PDF" press: st.sidebar.success or st.sidebar.error
ProcessReport(succeeded) == [action |-> "process_pdf", succeeded |-> succeeded]

\* ProcessPdfTry storing the extracted text before the summary is made
ProcessPdfStoringEarly(m, s, file, summary) ==
    LET valid == validate_pdf(file)
        pdf_text == extract_text_from_pdf(file)
    IN IF valid.raised \/ pdf_text.raised
       THEN [m |-> m, s |-> s, succeeded |-> FALSE]
       ELSE LET early == set_pdf_content(m, pdf_text.value, m.pdf_summary)
            IN IF summary.raised
               THEN [m |-> early, s |-> s, succeeded |-> FALSE]
               ELSE LET stored == set_pdf_content(early, pdf_text.value, summary.value)
                        s1 == [s EXCEPT !.pdf_processed = TRUE, !.pdf_summarized = TRUE,
                                        !.chat_messages = <<>>]
                        built == build_retriever(stored)
                    IN [m |-> built.m,
                        s |-> IF built.ret THEN [s1 EXCEPT !.retriever_built = TRUE] ELSE s1,
                        succeeded |-> TRUE]

\* the try block of "Process PDF": validate, extract, summarize, and only then
\* store the document, set the flags, clear the chat and build the retriever
ProcessPdfTry(m, s, file, summary) ==
    LET valid == validate_pdf(file)
        pdf_text == extract_text_from_pdf(file)
    IN IF ~valid.raised /\ ~pdf_text.raised /\ ~summary.raised
       THEN LET stored == set_pdf_content(m, pdf_text.value, summary.value)
                s1 == [s EXCEPT !.pdf_processed = TRUE, !.pdf_summarized = TRUE,
                                !.chat_messages = <<>>]
                built == build_retriever(stored)
            IN [m |-> built.m,
                s |-> IF built.ret THEN [s1 EXCEPT !.retriever_built = TRUE] ELSE s1,
                succeeded |-> TRUE]
       ELSE [m |-> m, s |-> s, succeeded |-> FALSE]

\* "Process PDF" pressed for an uploaded file
ProcessPDF(file, summary) ==
    /\ ~rerun_requested
    /\ LET tried == ProcessPdfTry(qm, ss, file, summary)
       IN IF tried.succeeded
          THEN /\ qm' = tried.m
               /\ ss' = tried.s
               /\ widgets' = <<>>
               /\ rerun_requested' = TRUE
               /\ ui' = ProcessReport(TRUE)
          ELSE LET stage == QuizStage(tried.m, tried.s, widgets)
               IN /\ qm' = stage.m
                  /\ ss' = tried.s
                  /\ widgets' = stage.w
                  /\ rerun_requested' = FALSE
                  /\ ui' = ProcessReport(FALSE)
    /\ csv' = NoFile
    /\ UNCHANGED <<rt, call>>

\* GenerateQuiz without `st.session_state.quiz_submitted = False`
GenerateQuizKeepingSubmitted(question_type, parsed, generator_ok) ==
    /\ ~rerun_requested
    /\ ss.pdf_processed
    /\ IF ~generator_ok
       THEN LET stage == QuizStage(qm, ss, widgets)
            IN /\ qm' = stage.m
               /\ ss' = ss
               /\ widgets' = stage.w
               /\ rerun_requested' = FALSE
               /\ ui' = NoReport
       ELSE LET gen == generate_questions_from_pdf(qm, question_type, parsed)
                s1 == [ss EXCEPT !.quiz_generated = gen.ret]
                stage == QuizStage(gen.m, s1, widgets)
            IN /\ qm' = IF gen.ret THEN gen.m ELSE stage.m
               /\ ss' = s1
               /\ widgets' = IF gen.ret THEN <<>> ELSE stage.w
               /\ rerun_requested' = gen.ret
               /\ ui' = NoReport
    /\ csv' = NoFile
    /\ UNCHANGED <<rt, call>>

\* "Generate Quiz" pressed; generator_ok: EnhancedQuestionGenerator() is built
GenerateQuiz(question_type, parsed, generator_ok) ==
    /\ ~rerun_requested
    /\ ss.pdf_processed
    /\ LET s0 == [ss EXCEPT !.quiz_submitted = FALSE]
       IN IF ~generator_ok
          THEN LET stage == QuizStage(qm, s0, widgets)
               IN /\ qm' = stage.m
                  /\ ss' = s0
                  /\ widgets' = stage.w
                  /\ rerun_requested' = FALSE
                  /\ ui' = NoReport
          ELSE LET gen == generate_questions_from_pdf(qm, question_type, parsed)
                   s1 == [s0 EXCEPT !.quiz_generated = gen.ret]
                   stage == QuizStage(gen.m, s1, widgets)
               IN /\ qm' = IF gen.ret THEN gen.m ELSE stage.m
                  /\ ss' = s1
                  /\ widgets' = IF gen.ret THEN <<>> ELSE stage.w
                  /\ rerun_requested' = gen.ret
                  /\ ui' = NoReport
    /\ csv' = NoFile
    /\ UNCHANGED <<rt, call>>

\* the user changes widget q_(i-1) to v
ChangeAnswer(i, v) ==
    /\ ~rerun_requested
    /\ QuizShown(qm, ss)
    /\ LET stage == QuizStage(qm, ss, [WidgetValues(qm, widgets) EXCEPT ![i] = v])
       IN /\ qm' = stage.m
          /\ widgets' = stage.w
    /\ ui' = NoReport
    /\ csv' = NoFile
    /\ UNCHANGED <<ss, rerun_requested, rt, call>>

\* "Submit Quiz" pressed
SubmitQuiz ==
    /\ ~rerun_requested
    /\ QuizShown(qm, ss)
    /\ LET stage == QuizStage(qm, ss, widgets)
           unanswered == Unanswered(stage.m.user_answers)
       IN /\ widgets' = stage.w
          /\ IF unanswered # <<>>
             THEN /\ qm' = stage.m
                  /\ ss' = ss
                  /\ rerun_requested' = FALSE
                  /\ ui' = Ui("submit", FALSE, unanswered)
             ELSE /\ qm' = evaluate_quiz(stage.m)
                  /\ ss' = [ss EXCEPT !.quiz_submitted = TRUE]
                  /\ rerun_requested' = TRUE
                  /\ ui' = Ui("submit", TRUE, <<>>)
    /\ csv' = NoFile
    /\ UNCHANGED <<rt, call>>

\* "Save Results" pressed (shown with the results, when the frame has rows)
SaveResults ==
    /\ ~rerun_requested
    /\ ss.quiz_submitted
    /\ qm.results # <<>>
    /\ LET stage == QuizStage(qm, ss, widgets)
       IN /\ qm' = stage.m
          /\ widgets' = stage.w
          /\ csv' = save_to_csv(stage.m)
    /\ ui' = NoReport
    /\ UNCHANGED <<ss, rerun_requested, rt, call>>

UserMessage(query) == [role |-> "user", content |-> query]

AssistantMessage(response) ==
    [role |-> "assistant", content |-> response.content, citations |-> response.citations]

ErrorMessage == [role |-> "assistant", content |-> "sorry"]

\* the questions typed into the chat
ChatQueries == { <<"b">> }

\* a question entered in the chat input; llm_built: get_groq_llm() returns,
\* llm_ok: llm.invoke returns
Chat(query, llm_built, llm_ok) ==
    /\ ~rerun_requested
    /\ ss.pdf_processed
    /\ ss.retriever_built
    /\ Len(ss.chat_messages) + 2 <= MaxChatMessages
    /\ LET stage == QuizStage(qm, ss, widgets)
           reply == IF llm_built THEN AssistantMessage(get_rag_response(stage.m, query, llm_ok))
                    ELSE ErrorMessage
       IN /\ qm' = stage.m
          /\ widgets' = stage.w
          /\ ss' = [ss EXCEPT !.chat_messages = @ \o <<UserMessage(query), reply>>]
    /\ ui' = NoReport
    /\ csv' = NoFile
    /\ UNCHANGED <<rerun_requested, rt, call>>

\* "Clear Chat History" pressed
ClearChat ==
    /\ ~rerun_requested
    /\ ss.pdf_processed
    /\ ss.retriever_built
    /\ LET stage == QuizStage(qm, ss, widgets)
       IN /\ qm' = stage.m
          /\ widgets' = stage.w
    /\ ss' = [ss EXCEPT !.chat_messages = <<>>]
    /\ rerun_requested' = TRUE
    /\ ui' = NoReport
    /\ csv' = NoFile
    /\ UNCHANGED <<rt, call>>

\* the run started by st.rerun(): no button is pressed
Rerun ==
    /\ rerun_requested
    /\ LET stage == QuizStage(qm, ss, widgets)
       IN /\ qm' = stage.m
          /\ widgets' = stage.w
    /\ rerun_requested' = FALSE
    /\ ui' = NoReport
    /\ csv' = NoFile
    /\ UNCHANGED <<ss, rt, call>>

\* what _retry_and_parse comes to for each request the loop makes, when each
\* request fails or parses to a question of the given set: num_questions
\* outcomes, or fewer when the last one made is a failure (the loop ends there)
ParsedLists(parsed_questions, max_questions) ==
    LET outcomes == {Raised} \cup {Returned(q) : q \in parsed_questions}
    IN UNION {{p \in [1..n -> outcomes] : \A i \in 1..(n - 1) : ~p[i].raised} :
                n \in 1..max_questions}

\* the script's runs ask a model that answers with one well-formed question
\* per type, or fails
SessionParsed(question_type) ==
    IF question_type = MultipleChoice
    THEN {MCQQuestion(<<"x">>, Opts4, <<"a">>)}
    ELSE {FillBlankQuestion(<<"_", "_", "_">>, <<"P", "a", " ">>)}

Next ==
    \/ \E file \in Uploads, summary \in Summaries : ProcessPDF(file, summary)
    \/ \E question_type \in {MultipleChoice, FillInTheBlank} :
         \/ \E parsed \in ParsedLists(SessionParsed(question_type), MaxQuestions) :
               GenerateQuiz(question_type, parsed, TRUE)
         \/ GenerateQuiz(question_type, <<>>, FALSE)
    \/ \E i \in 1..Len(qm.questions) : \E v \in UserChoices(qm, i) : ChangeAnswer(i, v)
    \/ SubmitQuiz
    \/ SaveResults
    \/ \E query \in ChatQueries, llm_built \in BOOLEAN, llm_ok \in BOOLEAN :
         Chat(query, llm_built, llm_ok)
    \/ ClearChat
    \/ Rerun

Spec == Init /\ [][Next]_vars

\* ------------------------------------- QuizManager driven by direct calls
\* The methods of one QuizManager called in any order by a caller other than
\* the script (no session_state, no gating of evaluate_quiz).

CallSetPdfContent(content, summary) ==
    /\ qm' = set_pdf_content(qm, content, summary)
    /\ ui' = NoReport
    /\ csv' = NoFile
    /\ UNCHANGED <<ss, widgets, rerun_requested, rt, call>>

CallGenerate(question_type, parsed) ==
    /\ qm' = generate_questions_from_pdf(qm, question_type, parsed).m
    /\ ui' = NoReport
    /\ csv' = NoFile
    /\ UNCHANGED <<ss, widgets, rerun_requested, rt, call>>

\* attempt_quiz rendering widgets that return the values widget
CallAttemptQuiz(widget) ==
    /\ qm' = attempt_quiz(qm, widget)
    /\ ui' = NoReport
    /\ csv' = NoFile
    /\ UNCHANGED <<ss, widgets, rerun_requested, rt, call>>

CallEvaluateQuiz ==
    /\ qm' = evaluate_quiz(qm)
    /\ ui' = Ui("evaluate", qm.questions # <<>> /\ qm.user_answers # <<>>, <<>>)
    /\ csv' = NoFile
    /\ UNCHANGED <<ss, widgets, rerun_requested, rt, call>>

CallSaveToCsv ==
    /\ csv' = save_to_csv(qm)
    /\ ui' = NoReport
    /\ UNCHANGED <<qm, ss, widgets, rerun_requested, rt, call>>

CallBuildRetriever ==
    /\ qm' = build_retriever(qm).m
    /\ ui' = NoReport
    /\ csv' = NoFile
    /\ UNCHANGED <<ss, widgets, rerun_requested, rt, call>>

\* get_rag_response(query, llm) called on the manager as it is; the report
\* keeps the query and what the call returned and did
CallGetRagResponse(query, llm_ok) ==
    /\ ui' = [action |-> "get_rag_response", query |-> query,
              response |-> get_rag_response(qm, query, llm_ok)]
    /\ csv' = NoFile
    /\ UNCHANGED <<qm, ss, widgets, rerun_requested, rt, call>>

\* the queries passed to get_rag_response: of one word, of two words, of
\* none
CallQueries == { <<"b">>, <<"d">>, <<"A", " ", "e">>, <<"c", " ", "b", " ", "a">>, <<" ">> }

CallContents == { <<"P", "a", ".", " ", "b">> }

CallQuestionTypes == {MultipleChoice, FillInTheBlank, "Essay"}

CallParsed(question_type) ==
    IF question_type = FillInTheBlank THEN ParsedFillBlank ELSE ParsedMCQ

NextAPI ==
    \/ \E content \in CallContents : CallSetPdfContent(content, "summary")
    \/ \E question_type \in CallQuestionTypes :
         \E parsed \in ParsedLists(CallParsed(question_type), MaxCallQuestions) :
            CallGenerate(question_type, parsed)
    \/ \E widget \in [1..Len(qm.questions) ->
                         UNION {WidgetReturns(qm, i) : i \in 1..Len(qm.questions)}] :
         CallAttemptQuiz(widget)
    \/ CallEvaluateQuiz
    \/ CallSaveToCsv

SpecAPI == Init /\ [][NextAPI]_vars

\* ------------------------------------- the chat calls of one QuizManager
\* set_pdf_content, build_retriever and get_rag_response called in any order
\* (the retriever may be missing, or built from an earlier content).
ChatContents ==
    { <<"P", "a", ".", " ", "b">>, <<"d", ".", "\n", "e">>, <<"c">>, <<"a", ".", " ", "b", " ", "c">> }

NextChat ==
    \/ \E content \in ChatContents : CallSetPdfContent(content, "summary")
    \/ CallBuildRetriever
    \/ \E query \in CallQueries, llm_ok \in BOOLEAN : CallGetRagResponse(query, llm_ok)

SpecChat == Init /\ [][NextChat]_vars

\* ------------------------------------------ SimpleRetriever on its own
\* A retriever built over a list of chunks, asked any query with any top_k.
ChunkPool == { <<"a", " ", "b">>, <<"A">>, <<"a", "b">>, <<"c">> }

ChunkLists == UNION {[1..n -> ChunkPool] : n \in 0..MaxChunks}

RetrieveQueries == { <<"a">>, <<"a", " ", "B">>, <<"b", " ", "c">>, <<"d">>, <<" ">>, <<>> }

InitRetrieve ==
    /\ qm = QuizManagerInit
    /\ ss = SessionInit
    /\ widgets = <<>>
    /\ rerun_requested = FALSE
    /\ ui = NoReport
    /\ csv = NoFile
    /\ rt \in {[chunks |-> chunks, called |-> FALSE] : chunks \in ChunkLists}
    /\ call = NoCall

Retrieve(query, top_k) ==
    /\ rt' = [chunks |-> rt.chunks, called |-> TRUE, query |-> query, top_k |-> top_k,
              result |-> retrieve(rt.chunks, query, top_k)]
    /\ UNCHANGED <<qm, ss, widgets, rerun_requested, ui, csv, call>>

NextRetrieve == \E query \in RetrieveQueries, top_k \in 0..MaxTopK : Retrieve(query, top_k)

SpecRetrieve == InitRetrieve /\ [][NextRetrieve]_vars

\* ------------------------------------------------ the chunkers on their own
\* _split_content_for_retrieval and _split_content applied to a text with a
\* requested count of at least 1, and the use generate_questions_from_pdf
\* makes of the parts of _split_content.

\* the pieces the texts are put together from with ". " between them
SentencePieces == { <<"a">>, <<>>, <<"b", " ", "c">>, <<"d", ".", "\n", "e">> }

\* n one-digit words (the digits in turn), a newline after every tenth and a
\* space after the others
NumberedWords(n) ==
    [p \in 1..(2 * n) |->
        IF p % 2 = 1 THEN Digit(((p + 1) \div 2) % 10)
        ELSE IF (p \div 2) % 10 = 0 THEN "\n" ELSE " "]

\* texts of a chunk's worth of words and more
LongTexts ==
    { NumberedWords(n) :
        n \in {MinChunkWords + 1, 2 * MinChunkWords + 2, 2 * MinChunkWords + 3} }

SplitTexts ==
    { Join(<<".", " ">>, pieces) :
        pieces \in UNION {[1..n -> SentencePieces] : n \in 1..MaxSentences} }
    \cup { <<" ">>, <<" ", "a", " ", " ", "b", "\n">> } \cup LongTexts

InitSplit ==
    /\ qm = QuizManagerInit
    /\ ss = SessionInit
    /\ widgets = <<>>
    /\ rerun_requested = FALSE
    /\ ui = NoReport
    /\ csv = NoFile
    /\ rt = RtIdle
    /\ call \in {[fn |-> "none", content |-> content] : content \in SplitTexts}

SplitForRetrieval(num_chunks) ==
    /\ call' = [fn |-> "_split_content_for_retrieval", content |-> call.content,
                count |-> num_chunks,
                result |-> split_content_for_retrieval(call.content, num_chunks)]
    /\ UNCHANGED <<qm, ss, widgets, rerun_requested, ui, csv, rt>>

SplitForQuestions(num_parts) ==
    /\ call' = [fn |-> "_split_content", content |-> call.content,
                count |-> num_parts,
                result |-> split_content(call.content, num_parts)]
    /\ UNCHANGED <<qm, ss, widgets, rerun_requested, ui, csv, rt>>

\* generate_questions_from_pdf on the text, every request answered: the parts
\* the text is split into and the part each question is requested from
RequestQuestions(num_questions) ==
    /\ call.content # <<>>
    /\ call' = [fn |-> "generate_questions_from_pdf", content |-> call.content,
                count |-> num_questions,
                parts |-> split_content(call.content, num_questions),
                requested |-> PartsRequested(call.content, num_questions)]
    /\ UNCHANGED <<qm, ss, widgets, rerun_requested, ui, csv, rt>>

NextSplit ==
    \/ \E num_chunks \in 1..MaxParts : SplitForRetrieval(num_chunks)
    \/ \E num_parts \in 1..MaxParts : SplitForQuestions(num_parts)
    \/ \E num_questions \in 1..MaxParts : RequestQuestions(num_questions)

SpecSplit == InitSplit /\ [][NextSplit]_vars

\* -------------------------------------- the question generator on its own
\* One call of generate_mcq_from_content or generate_fillblank_from_content,
\* attempt by attempt.
GeneratorCalls == {"generate_mcq_from_content", "generate_fillblank_from_content"}

\* what one attempt can come to: a failure, or a question parsed
AttemptOutcomes(fn) ==
    {Failed(cause) : cause \in AttemptFailures}
    \cup {Returned(q) : q \in IF fn = "generate_mcq_from_content"
                              THEN ParsedMCQ ELSE ParsedFillBlank}

StartGeneration(fn) ==
    /\ call.fn = "none"
    /\ call' = GenerationStarted(fn)
    /\ UNCHANGED <<qm, ss, widgets, rerun_requested, ui, csv, rt>>

Attempt(outcome) ==
    /\ call.fn \in GeneratorCalls
    /\ call.status = "running"
    /\ call' = GenerationStep(call, outcome)
    /\ UNCHANGED <<qm, ss, widgets, rerun_requested, ui, csv, rt>>

NextGenerate ==
    \/ \E fn \in GeneratorCalls : StartGeneration(fn)
    \/ \E outcome \in AttemptOutcomes(call.fn) : Attempt(outcome)

SpecGenerate == Init /\ [][NextGenerate]_vars

\* ------------------------------------------------ PDFProcessor on its own
\* validate_pdf and extract_text_from_pdf applied to an uploaded file.

\* what page.extract_text() comes to for one page: it raises, or returns no
\* text, whitespace, or text
PageTexts == { PyNone, PyStr(<<>>), PyStr(<<" ", "\n">>), PyStr(<<"c">>) }

PdfFiles ==
    { PdfFile(FALSE, <<>>) }
    \cup { PdfFile(TRUE, pages) : pages \in UNION {[1..n -> PageTexts] : n \in 0..MaxUploadPages} }
    \cup { PdfFile(TRUE, [i \in 1..n |-> PyStr(<<"c">>)]) : n \in {MaxPdfPages, MaxPdfPages + 1} }

InitPdf ==
    /\ qm = QuizManagerInit
    /\ ss = SessionInit
    /\ widgets = <<>>
    /\ rerun_requested = FALSE
    /\ ui = NoReport
    /\ csv = NoFile
    /\ rt = RtIdle
    /\ call \in {[fn |-> "none", file |-> file] : file \in PdfFiles}

ValidatePdf ==
    /\ call' = [fn |-> "validate_pdf", file |-> call.file, result |-> validate_pdf(call.file)]
    /\ UNCHANGED <<qm, ss, widgets, rerun_requested, ui, csv, rt>>

ExtractText ==
    /\ call' = [fn |-> "extract_text_from_pdf", file |-> call.file,
                result |-> extract_text_from_pdf(call.file)]
    /\ UNCHANGED <<qm, ss, widgets, rerun_requested, ui, csv, rt>>

NextPdf == ValidatePdf \/ ExtractText

SpecPdf == InitPdf /\ [][NextPdf]_vars

\* ------------------------------------------------- save_to_csv on its own
\* save_to_csv called on a manager holding an evaluated quiz.

\* the answers recorded before the evaluation: none, the right one in
\* capitals, a wrong one
SaveAnswers(question_type) ==
    IF question_type = MultipleChoice
    THEN {PyNone, PyStr(<<"a">>), PyStr(<<"A">>)}
    ELSE {PyNone, PyStr(<<"P", "A">>), PyStr(<<"b">>)}

SaveQuestion(question_type) ==
    IF question_type = MultipleChoice
    THEN MCQQuestion(<<"x">>, Opts4, <<"a">>)
    ELSE FillBlankQuestion(<<"_", "_", "_">>, <<"P", "a", " ">>)

\* the managers after evaluate_quiz, for every quiz of up to MaxRows
\* questions and every way of answering it
EvaluatedManagers ==
    UNION { { evaluate_quiz([QuizManagerInit EXCEPT
                                !.pdf_content = <<"P", "a", ".", " ", "b">>,
                                !.question_type = question_type,
                                !.questions = [i \in 1..n |-> SaveQuestion(question_type)],
                                !.user_answers = user_answers]) :
                user_answers \in [1..n -> SaveAnswers(question_type)] } :
            question_type \in {MultipleChoice, FillInTheBlank}, n \in 0..MaxRows }

InitSave ==
    /\ qm \in EvaluatedManagers
    /\ ss = SessionInit
    /\ widgets = <<>>
    /\ rerun_requested = FALSE
    /\ ui = NoReport
    /\ csv = NoFile
    /\ rt = RtIdle
    /\ call = NoCall

NextSave == CallSaveToCsv

SpecSave == InitSave /\ [][NextSave]_vars

\* ------------------------------------------------------------ properties
IsUnset(answer) == answer = PyNone \/ answer = PyStr(<<>>)

SessionQuestionTypes == {MultipleChoice, FillInTheBlank}

\* C1: in every reachable state of the session, user_answers has as many
\* entries as questions.
C1_AnswersAlignedWithQuestions == Len(qm.user_answers) = Len(qm.questions)

\* C2: a Generate Quiz run whose generate call fails leaves questions,
\* user_answers and question_type as they were before the run.
C2_FailedGenerateChangesNothing ==
    [][\A question_type \in SessionQuestionTypes :
         \A parsed \in ParsedLists(SessionParsed(question_type), MaxQuestions) :
            (GenerateQuiz(question_type, parsed, TRUE)
                /\ ~generate_questions_from_pdf(qm, question_type, parsed).ret)
            => /\ qm'.questions = qm.questions
               /\ qm'.user_answers = qm.user_answers
               /\ qm'.question_type = qm.question_type]_vars

\* C3: when generate succeeds on a session that already holds a generated
\* quiz, user_answers afterwards is all unset, as long as the new questions,
\* and no results of the earlier quiz remain stored.
C3_RegenerateDiscardsAnswersAndResults ==
    [][\A question_type \in SessionQuestionTypes :
         \A parsed \in ParsedLists(SessionParsed(question_type), MaxQuestions) :
            (GenerateQuiz(question_type, parsed, TRUE)
                /\ ss.quiz_generated
                /\ generate_questions_from_pdf(qm, question_type, parsed).ret)
            => /\ Len(qm'.user_answers) = Len(qm'.questions)
               /\ \A i \in 1..Len(qm'.user_answers) : qm'.user_answers[i] = PyNone
               /\ qm'.results = <<>>]_vars

\* C4: once a quiz has been evaluated, no run other than a Generate Quiz run
\* changes results.  (quiz_submitted is set by the evaluating Submit and
\* cleared by every Generate Quiz press, so a step from quiz_submitted to
\* quiz_submitted is a step of an evaluated quiz that is not a Generate run.)
C4_ResultsFrozenAfterEvaluation ==
    [][(ss.quiz_submitted /\ ss'.quiz_submitted) => qm'.results = qm.results]_vars

\* C5: a Submit Quiz run calls evaluate_quiz only when no slot of user_answers
\* is None or ""; otherwise it leaves results and quiz_submitted alone and
\* warns with the 1-based numbers of exactly the unset slots, in order.
C5_SubmitEvaluatesOnlyCompleteAnswers ==
    [][SubmitQuiz =>
        LET unset == {i \in 1..Len(qm'.user_answers) : IsUnset(qm'.user_answers[i])}
        IN /\ ui'.evaluated <=> unset = {}
           /\ unset # {} =>
                /\ qm'.results = qm.results
                /\ ss'.quiz_submitted = ss.quiz_submitted
                /\ Range(ui'.warning) = unset
                /\ \A j, k \in 1..Len(ui'.warning) : j < k => ui'.warning[j] < ui'.warning[k]]_vars

\* C5 witness: a Submit Quiz press on an already evaluated quiz is blocked
\* because one answer was emptied again, another being still set
C5_Witness ==
    /\ ui.action = "submit"
    /\ ui.warning # <<>>
    /\ Len(ui.warning) < Len(qm.user_answers)
    /\ \E i \in 1..Len(qm.user_answers) : qm.user_answers[i] = PyStr(<<>>)
    /\ ss.quiz_submitted
    /\ qm.results # <<>>

\* the state right after a call of evaluate_quiz that graded the answers
JustEvaluated == ui.action = "evaluate" /\ ui.evaluated

\* C6: evaluate_quiz grades an unset answer (None or "") with is_correct equal
\* to the boolean false and user_answer "No answer", for both question types,
\* and is_correct is a boolean in every result record.
C6_UnsetAnswerGradedFalse ==
    JustEvaluated =>
        \A i \in 1..Len(qm.results) :
            /\ qm.results[i].is_correct.t = "bool"
            /\ IsUnset(qm.user_answers[i]) =>
                /\ qm.results[i].is_correct = PyBool(FALSE)
                /\ qm.results[i].user_answer = PyStr(NoAnswer)

\* C7: for a Multiple Choice quiz, the evaluation made by Submit Quiz marks
\* question i correct exactly when the recorded answer is, character for
\* character, the question's correct_answer, and marks it false otherwise.
C7_MCQCorrectIffExactlyEqual ==
    (ui.action = "submit" /\ ui.evaluated /\ qm.question_type = MultipleChoice) =>
        /\ Len(qm.results) = Len(qm.questions)
        /\ \A i \in 1..Len(qm.questions) :
              /\ qm.results[i].is_correct \in {PyBool(TRUE), PyBool(FALSE)}
              /\ qm.results[i].is_correct = PyBool(TRUE)
                    <=> /\ qm.user_answers[i].t = "str"
                        /\ qm.user_answers[i].s = qm.questions[i].correct_answer

\* C7 witness: an evaluated two-question quiz in which the option "A", which
\* differs from the key "a" only in case, is marked false and "a" is marked true
C7_Witness ==
    /\ ui.action = "submit" /\ ui.evaluated /\ qm.question_type = MultipleChoice
    /\ \E i, j \in 1..Len(qm.results) :
          /\ qm.user_answers[i] = PyStr(<<"A">>)
          /\ qm.questions[i].correct_answer = <<"a">>
          /\ qm.results[i].is_correct = PyBool(FALSE)
          /\ qm.user_answers[j] = PyStr(<<"a">>)
          /\ qm.results[j].is_correct = PyBool(TRUE)

\* lower-cased and trimmed
Normalised(str) == Strip(Lower(str))

\* C8 as stated: for a Fill in the Blank quiz, evaluate_quiz marks question i
\* correct if and only if the recorded answer and the question's answer are
\* equal after lower-casing and trimming both.
C8_FillBlankCorrectIffNormalisedEqual ==
    (JustEvaluated /\ qm.question_type = FillInTheBlank) =>
        \A i \in 1..Len(qm.results) :
            qm.results[i].is_correct = PyBool(TRUE)
                <=> /\ qm.user_answers[i].t = "str"
                    /\ Normalised(qm.user_answers[i].s) = Normalised(qm.questions[i].answer)

\* C8 as amended: for a Fill in the Blank quiz, evaluate_quiz marks question i
\* correct if and only if the recorded answer is set (neither None nor "")
\* and equals the question's answer after lower-casing and trimming both.
C8_SetAnswerCorrectIffNormalisedEqual ==
    (JustEvaluated /\ qm.question_type = FillInTheBlank) =>
        \A i \in 1..Len(qm.results) :
            qm.results[i].is_correct = PyBool(TRUE)
                <=> /\ ~IsUnset(qm.user_answers[i])
                    /\ Normalised(qm.user_answers[i].s) = Normalised(qm.questions[i].answer)

\* C8 witness: the answer "PA" is marked correct against the key "Pa "
C8_Witness ==
    /\ JustEvaluated /\ qm.question_type = FillInTheBlank
    /\ \E i \in 1..Len(qm.results) :
          /\ qm.user_answers[i] = PyStr(<<"P", "A">>)
          /\ qm.questions[i].answer = <<"P", "a", " ">>
          /\ qm.results[i].is_correct = PyBool(TRUE)

\* C9: retrieve returns at most top_k results, each with a score above 0.
C9_AtMostTopKAllPositive ==
    (rt.called /\ ~rt.result.raised) =>
        /\ Len(rt.result.value) <= rt.top_k
        /\ \A i \in 1..Len(rt.result.value) : RatLess(Rat(0, 1), rt.result.value[i].score)

\* C9 witness: fewer than top_k results although there are top_k chunks,
\* because a chunk scored 0
C9_Witness ==
    /\ rt.called /\ ~rt.result.raised
    /\ Len(rt.result.value) > 0
    /\ Len(rt.result.value) < rt.top_k
    /\ Len(rt.chunks) >= rt.top_k

\* C10 as stated: of two adjacent results, the earlier has the strictly
\* greater score.
C10_StrictlyDescending ==
    (rt.called /\ ~rt.result.raised) =>
        \A i \in 1..(Len(rt.result.value) - 1) :
            RatLess(rt.result.value[i + 1].score, rt.result.value[i].score)

\* C10 as amended: of two adjacent results, the earlier has a score greater
\* than or equal to the later one's.
C10_NonIncreasing ==
    (rt.called /\ ~rt.result.raised) =>
        \A i \in 1..(Len(rt.result.value) - 1) :
            ~RatLess(rt.result.value[i].score, rt.result.value[i + 1].score)

\* C10 witness: a later chunk outscored an earlier one and is returned first
C10_Witness ==
    /\ rt.called /\ ~rt.result.raised
    /\ Len(rt.result.value) >= 2
    /\ rt.result.value[1].idx > rt.result.value[2].idx
    /\ RatLess(rt.result.value[2].score, rt.result.value[1].score)

\* the lower-cased words of the query of the last retrieve call
LastQueryWords == Range(Split(Lower(rt.query)))

\* C11: chunks of equal score are returned in original chunk order (the
\* smaller index first), and when a chunk is left out while a chunk of the
\* same score is returned, the returned one has the smaller index.
C11_TiesInChunkOrder ==
    (rt.called /\ ~rt.result.raised) =>
        LET res == rt.result.value
        IN /\ \A i \in 1..Len(res) : \A j \in 1..Len(res) :
                 (i < j /\ RatEq(res[i].score, res[j].score)) => res[i].idx < res[j].idx
           /\ \A i \in 1..Len(res) : \A k \in 1..Len(rt.chunks) :
                 ( /\ RatEq(FinalScore(LastQueryWords, rt.chunks[k]), res[i].score)
                   /\ \A j \in 1..Len(res) : res[j].idx # k - 1 )
                 => res[i].idx < k - 1

\* C11 witness: two chunks tie on a positive score, top_k leaves room for
\* one of them only, and a chunk of a different score is returned as well
C11_Witness ==
    /\ rt.called /\ ~rt.result.raised
    /\ Len(rt.result.value) = 2
    /\ rt.top_k = 2
    /\ ~RatEq(rt.result.value[1].score, rt.result.value[2].score)
    /\ \E k \in 1..Len(rt.chunks) :
          /\ k - 1 > rt.result.value[2].idx
          /\ RatEq(FinalScore(LastQueryWords, rt.chunks[k]), rt.result.value[2].score)

\* C12: for a query without words and a non-empty chunk list, retrieve
\* returns normally, and what it returns is the empty sequence.
C12_WordlessQueryReturnsEmpty ==
    (rt.called /\ rt.chunks # <<>> /\ LastQueryWords = {}) =>
        (~rt.result.raised /\ rt.result.value = <<>>)

\* the last direct call was get_rag_response
JustAsked == ui.action = "get_rag_response"

\* the retrieval get_rag_response is grounded on: the retriever's chunks that
\* score above 0 for the query of the last call
GroundingChunks ==
    IF ~qm.retriever.set THEN {}
    ELSE LET query_words == Range(Split(Lower(ui.query)))
         IN IF query_words = {} THEN {}
            ELSE {k \in 1..Len(qm.retriever.chunks) :
                     RatLess(Rat(0, 1), FinalScore(query_words, qm.retriever.chunks[k]))}

SentenceMode == call.fn = "_split_content_for_retrieval"

WordMode == call.fn = "_split_content"

\* C14: for a non-empty text and a requested count of at least 1, both
\* chunkers return at least one chunk.
C14_ChunkersReturnAChunk ==
    ((SentenceMode \/ WordMode) /\ call.content # <<>> /\ call.count >= 1) =>
        Len(call.result) >= 1

\* C14 witness: a text of whitespace only, which has no word, comes back
\* from the word chunker as one chunk
C14_Witness ==
    /\ WordMode
    /\ call.content # <<>>
    /\ Split(call.content) = <<>>
    /\ Len(call.result) = 1

\* the words of all chunks, in order
RECURSIVE WordsOfChunks(_)
WordsOfChunks(chunks) ==
    IF chunks = <<>> THEN <<>>
    ELSE Split(Head(chunks)) \o WordsOfChunks(Tail(chunks))

\* C15: for a text with at least one word and num_parts >= 1, the words of
\* the word-mode chunks, taken in order, are exactly the words of the text:
\* none dropped, duplicated or reordered.
C15_WordChunksPartitionTheWords ==
    (WordMode /\ Split(call.content) # <<>> /\ call.count >= 1) =>
        WordsOfChunks(call.result) = Split(call.content)

\* C15 witness: a text cut into three chunks, the last one shorter
C15_Witness ==
    /\ WordMode
    /\ Len(call.result) = 3
    /\ Len(Split(call.result[3])) < Len(Split(call.result[1]))

\* C16 as stated: when the pieces of the text between period-plus-space are
\* at most target_chunk_count, the sentence chunker returns one chunk per
\* piece, in order (a chunk being its piece, up to the newlines in it).
C16_OneChunkPerSentenceUnit ==
    LET units == SplitSentences(call.content)
    IN (SentenceMode /\ Len(units) <= call.count) =>
          /\ Len(call.result) = Len(units)
          /\ \A i \in 1..Len(units) : call.result[i] = ReplaceNewlines(units[i])

\* C16 as amended: when the pieces between period-plus-space of the text
\* with every newline replaced by a space are at most target_chunk_count,
\* the sentence chunker returns exactly those pieces, in order.
C16_OneChunkPerNormalisedSentenceUnit ==
    LET units == SplitSentences([i \in 1..Len(call.content) |->
                                    IF call.content[i] = "\n" THEN " " ELSE call.content[i]])
    IN (SentenceMode /\ Len(units) <= call.count) => call.result = units

\* C16 witness: a text of as many sentence units as chunks were asked for,
\* one of them ended by a period at the end of a line
C16_Witness ==
    /\ SentenceMode
    /\ call.count = 3
    /\ Len(call.result) = 3
    /\ \E i \in 1..Len(call.content) : call.content[i] = "\n"

\* a generation call has been started
Generating == call.fn \in GeneratorCalls

\* C17: a generation call raises only when the maximum number of attempts
\* has been made; a parsed question that fails validation after fewer
\* attempts is followed by another attempt.
C17_ValidationFailureIsRetried ==
    (Generating /\ call.status = "raised") => Len(call.log) = MaxRetries

\* C18: in one generation call the LLM is invoked at most three times, no
\* attempt follows a successful parse, and when all three attempts have
\* failed the call has ended by raising an error that carries the failure
\* of the third attempt.
C18_AttemptsSequentialAndBounded ==
    Generating =>
        /\ Len(call.log) <= 3
        /\ \A i \in 1..(Len(call.log) - 1) : call.log[i].raised
        /\ (Len(call.log) = 3 /\ \A i \in 1..3 : call.log[i].raised) =>
              /\ call.status = "raised"
              /\ call.error.cause = call.log[3].cause
        /\ call.status = "running" => Len(call.log) < 3

\* C18 witness: three attempts failed for three different reasons and the
\* call raised
C18_Witness ==
    /\ Generating
    /\ call.status = "raised"
    /\ Len(call.log) = 3
    /\ call.log[1].raised /\ call.log[2].raised /\ call.log[3].raised
    /\ call.log[1].cause # call.log[3].cause
    /\ call.log[2].cause # call.log[3].cause

\* C19: every stored MCQQuestion has exactly 4 options, pairwise distinct,
\* with correct_answer among them; every stored FillBlankQuestion's question
\* contains "___".
C19_StoredQuestionsWellFormed ==
    \A i \in 1..Len(qm.questions) :
        LET q == qm.questions[i]
        IN /\ qm.question_type = MultipleChoice =>
                /\ Len(q.options) = 4
                /\ \A j \in 1..Len(q.options) : \A k \in 1..Len(q.options) :
                      j # k => q.options[j] # q.options[k]
                /\ \E j \in 1..Len(q.options) : q.options[j] = q.correct_answer
           /\ qm.question_type = FillInTheBlank =>
                \E j \in 0..(Len(q.question) - 3) :
                    q.question[j + 1] = "_" /\ q.question[j + 2] = "_" /\ q.question[j + 3] = "_"

\* a page gave no text: extracting it failed, or it returned nothing but
\* whitespace
NoTextOn(page) == page.t # "str" \/ \A i \in 1..Len(page.s) : page.s[i] \in {" ", "\n", "\t"}

\* C20: extract_text_from_pdf raises whenever no page of the PDF gives any
\* text other than whitespace, and validate_pdf raises whenever the PDF has
\* no page or more than 15 pages.
C20_NoTextOrBadPageCountFails ==
    /\ (call.fn = "extract_text_from_pdf"
          /\ \A i \in 1..Len(call.file.pages) : NoTextOn(call.file.pages[i]))
       => call.result.raised
    /\ (call.fn = "validate_pdf"
          /\ (Len(call.file.pages) = 0 \/ Len(call.file.pages) > 15))
       => call.result.raised

\* C21: the file a successful save leaves behind is the whole summary block,
\* an empty line, and the whole table (header and one row per result), in
\* this order, nothing overwritten and nothing missing.
C21_FileIsSummaryThenTable ==
    csv.written => csv.content = SummaryText(csv.summary_data) \o TableText(csv.table)

\* C22: in the summary block at the head of the saved file, total_questions is
\* the number of results, correct_answers the number of results whose
\* is_correct is true, and score_percentage is 100 * correct_answers /
\* total_questions rounded to 2 decimal places.
C22_SummaryAgreesWithResults ==
    csv.written =>
        LET total == Len(qm.results)
            correct == Cardinality({i \in 1..total : qm.results[i].is_correct = PyBool(TRUE)})
            summary == csv.summary_data
            error == summary.score_percentage * total - 10000 * correct
            block == SummaryText(summary)
        IN /\ summary.total_questions = total
           /\ summary.correct_answers = correct
           /\ 2 * error <= total /\ -2 * error <= total
           /\ Len(csv.content) >= Len(block)
           /\ SubSeq(csv.content, 1, Len(block)) = block

\* C22 witness: two of three answers were right and the file says 66.67
C22_Witness ==
    /\ csv.written
    /\ csv.summary_data.total_questions = 3
    /\ csv.summary_data.correct_answers = 2
    /\ csv.summary_data.score_percentage = 6667
    /\ \E i \in 1..(Len(csv.content) - 4) :
          SubSeq(csv.content, i, i + 4) = <<"6", "6", ".", "6", "7">>

\* the document side of the session: the stored document, what is built from
\* it, the chat history and the three document flags
DocumentSide(m, s) ==
    <<m.pdf_content, m.pdf_summary, m.content_chunks, m.retriever,
      s.chat_messages, s.pdf_processed, s.pdf_summarized, s.retriever_built>>

\* C23: a "Process PDF" run that reports a failure (validation, text
\* extraction or summarization raised in its try block) leaves pdf_content,
\* pdf_summary, content_chunks, the retriever, the chat history and the flags
\* pdf_processed, pdf_summarized and retriever_built as they were.
C23_FailedProcessKeepsDocument ==
    [][(ui'.action = "process_pdf" /\ ~ui'.succeeded)
          => DocumentSide(qm', ss') = DocumentSide(qm, ss)]_vars

\* C23 witness: a "Process PDF" press has just failed in a session that holds
\* a processed document, its retriever and a chat history.
C23_Witness ==
    /\ ui.action = "process_pdf"
    /\ ~ui.succeeded
    /\ ss.pdf_processed
    /\ ss.retriever_built
    /\ qm.retriever.set
    /\ qm.pdf_content # <<>>
    /\ ss.chat_messages # <<>>

\* the sentence units of the text of the last call, and the window sizes the
\* sentence chunker derives from their number and the requested count
SentenceUnits == SplitSentences(ReplaceNewlines(call.content))

WindowSize == Max(Len(SentenceUnits) \div call.count, 3)

WindowOverlap == Max(WindowSize \div 3, 1)

WindowStep == WindowSize - WindowOverlap

\* the 1-based positions of the units in the k-th window (k from 1)
WindowUnits(k) ==
    {j \in 1..Len(SentenceUnits) :
        (k - 1) * WindowStep < j /\ j <= (k - 1) * WindowStep + WindowSize}

\* windows start at every multiple of the step below the number of units
NumWindows == (Len(SentenceUnits) + WindowStep - 1) \div WindowStep

\* the k-th window as a chunk: its units joined by ". ", stripped
WindowText(k) ==
    Strip(Join(<<".", " ">>,
               [p \in 1..Cardinality(WindowUnits(k)) |->
                   SentenceUnits[(k - 1) * WindowStep + p]]))

\* C24: in sentence mode with more sentence units than target_chunk_count,
\* the step chunk_size - overlap is at least 1; the returned chunks are, in
\* order, the non-blank windows of chunk_size units starting at every
\* multiple of the step, so that two consecutive full windows share exactly
\* overlap = max(chunk_size // 3, 1) units; and every non-blank unit lies in
\* a window that is returned.
C24_WindowsOverlapAndCover ==
    (SentenceMode /\ Len(SentenceUnits) > call.count) =>
        /\ WindowStep >= 1
        /\ call.result = SelectSeq([k \in 1..NumWindows |-> WindowText(k)],
                                   LAMBDA chunk : chunk # <<>>)
        /\ \A k \in 1..NumWindows :
              (Cardinality(WindowUnits(k)) = WindowSize
                 /\ Cardinality(WindowUnits(k + 1)) = WindowSize)
              => Cardinality(WindowUnits(k) \cap WindowUnits(k + 1)) = WindowOverlap
        /\ \A j \in 1..Len(SentenceUnits) :
              Strip(SentenceUnits[j]) # <<>> =>
                 \E k \in 1..NumWindows :
                    /\ j \in WindowUnits(k)
                    /\ \E c \in 1..Len(call.result) : call.result[c] = WindowText(k)

\* C24 witness: a text of more units than chunks asked for, cut into at
\* least two full windows and a shorter last one, one unit being blank
C24_Witness ==
    /\ SentenceMode
    /\ Len(SentenceUnits) > call.count
    /\ Cardinality(WindowUnits(1)) = WindowSize
    /\ Cardinality(WindowUnits(2)) = WindowSize
    /\ Len(call.result) >= 3
    /\ \E j \in 1..Len(SentenceUnits) : Strip(SentenceUnits[j]) = <<>>

\* the last call was generate_questions_from_pdf
QuestionsRequested == call.fn = "generate_questions_from_pdf"

\* C25: when count questions are asked for, the text is split into P parts
\* with 1 <= P <= count, question i (0-based) is requested from part i mod P,
\* and every part is used for at least one question.
C25_EveryPartUsedCyclically ==
    QuestionsRequested =>
        LET P == Len(call.parts)
        IN /\ P >= 1
           /\ P <= call.count
           /\ \A q \in 1..call.count : call.requested[q] = ((q - 1) % P) + 1
           /\ \A part \in 1..P : \E q \in 1..call.count : call.requested[q] = part

\* C26: when get_rag_response gets an answer from the LLM, the citations it
\* returns are the retrieval results the prompt was built from, in the same
\* order: as many as there are context blocks, the block at position i being
\* "Context i: " followed by the chunk of citation i, and they are what
\* retrieve returns for the query with top_k = 3.  When the LLM call fails,
\* the error message is returned with no citation.  (The call returns in
\* every case.)
C26_CitationsAreThePromptContexts ==
    JustAsked =>
        LET response == ui.response
        IN /\ response.content = "answer" =>
                /\ response.invoked
                /\ Len(response.citations) = Len(response.contexts)
                /\ \A i \in 1..Len(response.citations) :
                      response.contexts[i] =
                         <<"C", "o", "n", "t", "e", "x", "t", " ">> \o Str(i) \o <<":", " ">>
                            \o response.citations[i].chunk
                /\ response.citations = retrieve(qm.retriever.chunks, ui.query, 3).value
           /\ (response.invoked /\ response.content # "answer") =>
                /\ response.content = "error"
                /\ response.citations = <<>>
           /\ response.content \in {"process_pdf_first", "not_found", "error", "answer"}

\* C26 witness: an answer grounded on two chunks, the second chunk of the
\* document cited first
C26_Witness ==
    /\ JustAsked
    /\ ui.response.content = "answer"
    /\ Len(ui.response.citations) = 2
    /\ ui.response.citations[1].idx = 1
    /\ ui.response.citations[2].idx = 0

\* the correct answer a question record carries
CorrectAnswerOf(question) ==
    IF "correct_answer" \in DOMAIN question THEN question.correct_answer ELSE question.answer

\* C27: whenever quiz_submitted is true, results holds exactly one record per
\* stored question, in question order, with question_number equal to the
\* position (from 1) and the question text and correct answer of the stored
\* question at that position.
C27_ResultsAreOfTheStoredQuestions ==
    ss.quiz_submitted =>
        /\ Len(qm.results) = Len(qm.questions)
        /\ \A i \in 1..Len(qm.results) :
              /\ qm.results[i].question_number = i
              /\ qm.results[i].question = qm.questions[i].question
              /\ qm.results[i].correct_answer = CorrectAnswerOf(qm.questions[i])

\* C27 witness: the results of a submitted two-question fill-in-the-blank
\* quiz are on display after the rerun
C27_Witness ==
    /\ ss.quiz_submitted
    /\ ~rerun_requested
    /\ qm.question_type = FillInTheBlank
    /\ Len(qm.questions) = 2
    /\ Len(qm.results) = 2

\* C28: whenever retriever_built is true, the manager has a retriever, and
\* the chunks the retriever searches (and content_chunks) are the
\* sentence-mode split of the pdf_content stored now, not of a document
\* loaded before it.
C28_RetrieverIsOfTheCurrentDocument ==
    ss.retriever_built =>
        /\ qm.retriever.set
        /\ qm.retriever.chunks = split_content_for_retrieval(qm.pdf_content, DefaultNumChunks)
        /\ qm.content_chunks = qm.retriever.chunks

\* C28 witness: a document has just been processed in a session that had a
\* quiz generated from an earlier document, and the retriever is built
C28_Witness ==
    /\ ui.action = "process_pdf"
    /\ ui.succeeded
    /\ ss.quiz_generated
    /\ qm.questions # <<>>
    /\ ss.retriever_built
    /\ qm.retriever.set

\* the quiz side of the session: the quiz, the answers, the results and the
\* two quiz flags
QuizSide(m, s) ==
    <<m.questions, m.user_answers, m.results, m.question_type,
      s.quiz_generated, s.quiz_submitted>>

====
